---------------------------- MODULE Spec2Model ----------------------------
(***************************************************************************)
(* URL phishing detection service (app.py, simple_app.py) and the feature  *)
(* extractor the training scripts share with it.                           *)
(*                                                                         *)
(* A Python str is a sequence of one-character strings.  A JSON value is a *)
(* record: t is its type, s the characters of a string (or the digits of a *)
(* number), items the items of a list, pairs the <<key, value>> pairs of a *)
(* dict.  A feature row is a sequence of <<key, value>> pairs in insertion *)
(* order, a response body a record.  A probability is an integer number of *)
(* 1/(2*Half) units, so that 0.5 is Half and 1.0 is 2*Half.                *)
(***************************************************************************)
EXTENDS Integers, Sequences, FiniteSets, TLC

VARIABLES
    started,         \* app.py: the process is up (main ran, or a WSGI server imported the module)
    model,           \* app.py: the global `model`
    simple_started,  \* simple_app.py: the process is up
    simple_model,    \* simple_app.py: the global `model`
    req,             \* the request being served: [op, data]
    resp,            \* its response [code, body], NoResp while none is pending
    extracted,       \* the arguments of the extract_features calls that returned a row while serving req
    scored,          \* the feature rows handed to model.predict while serving req
    threads          \* app.py under a threaded server: each worker thread's position in its handler

vars == <<started, model, simple_started, simple_model, req, resp, extracted, scored, threads>>

---------------------------------------------------------------------------
(* Bounds of the model. *)

\* worker threads of the threaded server
NumThreads == 2

\* generated strings over Alphabet have at most this many characters
MaxLen == 2
\* generated strings over SlashAlphabet have at most this many characters
MaxSlashLen == 5
\* generated batches have at most this many items
MaxSmallBatch == 3
\* the resolution of a probability: 0.5 is Half units, 1.0 is 2 * Half units
Half == 5

ProbMax == 2 * Half

---------------------------------------------------------------------------
(* Python's str operations, as the code uses them. *)

LowerCase == <<"a", "b", "c", "d", "e", "f", "g", "h", "i", "j", "k", "l", "m",
               "n", "o", "p", "q", "r", "s", "t", "u", "v", "w", "x", "y", "z">>
UpperCase == <<"A", "B", "C", "D", "E", "F", "G", "H", "I", "J", "K", "L", "M",
               "N", "O", "P", "Q", "R", "S", "T", "U", "V", "W", "X", "Y", "Z">>
Digits == {"0", "1", "2", "3", "4", "5", "6", "7", "8", "9"}
Whitespace == {" ", "\t", "\n", "\r"}

Range(f) == {f[i] : i \in DOMAIN f}
Min(S) == CHOOSE x \in S : \A y \in S : x <= y
Max(S) == CHOOSE x \in S : \A y \in S : x >= y
Last(s) == s[Len(s)]

isdigit(c) == c \in Digits
isalpha(c) == c \in Range(LowerCase) \cup Range(UpperCase)
isalnum(c) == isalpha(c) \/ isdigit(c)

\* c.lower() of one character
lower_char(c) ==
    IF c \in Range(UpperCase)
    THEN LowerCase[CHOOSE i \in DOMAIN UpperCase : UpperCase[i] = c]
    ELSE c

\* s.lower()
lower(s) == [i \in 1..Len(s) |-> lower_char(s[i])]

\* s.find(sub), 1-based: the first place sub occurs in s, 0 when it does not
find(s, sub) ==
    LET hits == {i \in 1..(Len(s) - Len(sub) + 1) : SubSeq(s, i, i + Len(sub) - 1) = sub}
    IN IF hits = {} THEN 0 ELSE Min(hits)

\* `sub in s`
contains(s, sub) == find(s, sub) # 0

\* s.count(c) for a one-character c
count(s, c) == Cardinality({i \in 1..Len(s) : s[i] = c})

\* s.split(sep, maxsplit): cut at the occurrences of sep found left to right
\* without overlap, at most maxsplit of them (-1: all)
RECURSIVE split(_, _, _)
split(s, sep, maxsplit) ==
    LET i == find(s, sep)
    IN IF maxsplit = 0 \/ i = 0
       THEN <<s>>
       ELSE <<SubSeq(s, 1, i - 1)>>
            \o split(SubSeq(s, i + Len(sep), Len(s)), sep, maxsplit - 1)

\* s.strip(): s without its leading and trailing whitespace
strip(s) ==
    LET keep == {i \in 1..Len(s) : s[i] \notin Whitespace}
    IN IF keep = {} THEN <<>> ELSE SubSeq(s, Min(keep), Max(keep))

\* the place after the longest run of digits of s that starts at place i
RECURSIVE digits_end(_, _)
digits_end(s, i) ==
    IF i <= Len(s) /\ isdigit(s[i]) THEN digits_end(s, i + 1) ELSE i

\* s has sub at place i
has_at(s, sub, i) == i + Len(sub) - 1 <= Len(s) /\ SubSeq(s, i, i + Len(sub) - 1) = sub

\* the place after \d+\. matched at place i, 0 when it does not match there
digits_dot(s, i) ==
    LET j == digits_end(s, i)
    IN IF i # 0 /\ j > i /\ has_at(s, <<".">>, j) THEN j + 1 ELSE 0

\* re.match(r"^https?:\/\/\d+\.\d+\.\d+\.\d+", url) is not None
re_match_ip(url) ==
    /\ has_at(url, <<"h", "t", "t", "p">>, 1)
    /\ LET j == IF has_at(url, <<"s">>, 5) THEN 6 ELSE 5
           k == digits_dot(url, digits_dot(url, digits_dot(url, j + 3)))
       IN /\ has_at(url, <<":", "/", "/">>, j)
          /\ k # 0
          /\ digits_end(url, k) > k

int(b) == IF b THEN 1 ELSE 0

---------------------------------------------------------------------------
(* A call returns a value or raises. *)

Ok(v) == [ok |-> TRUE, val |-> v]
Raise(msg) == [ok |-> FALSE, val |-> msg]

---------------------------------------------------------------------------
(* extract_features, identical in app.py, save_model.py and                *)
(* create_lightweight_model.py: the row in the insertion order of the dict *)
(* literal.                                                                *)

\* path_length cut at the first "//" only
path_length_first(url) ==
    IF contains(Last(split(url, <<"/", "/">>, 1)), <<"/">>)
    THEN Len(Last(split(Last(split(url, <<"/", "/">>, 1)), <<"/">>, 1)))
    ELSE 0

path_length(url) ==
    IF contains(Last(split(url, <<"/", "/">>, -1)), <<"/">>)
    THEN Len(Last(split(Last(split(url, <<"/", "/">>, -1)), <<"/">>, 1)))
    ELSE 0

query_length(url) ==
    IF contains(url, <<"?">>) THEN Len(Last(split(url, <<"?">>, -1))) ELSE 0

\* count_dot without the cap
count_dot_uncapped(url) == count(url, ".")

count_dot(url) == Min({count(url, "."), 4})

extract_features(url) ==
    << <<"url_length", Len(url)>>,
       <<"path_length", path_length(url)>>,
       <<"query_length", query_length(url)>>,
       <<"num_digits", Cardinality({i \in 1..Len(url) : isdigit(url[i])})>>,
       <<"num_letters", Cardinality({i \in 1..Len(url) : isalpha(url[i])})>>,
       <<"num_special", Cardinality({i \in 1..Len(url) : ~isalnum(url[i])})>>,
       <<"count_dot", count_dot(url)>>,
       <<"count_dash", count(url, "-")>>,
       <<"count_slash", count(url, "/")>>,
       <<"count_at", count(url, "@")>>,
       <<"count_qmark", count(url, "?")>>,
       <<"count_percent", count(url, "%")>>,
       <<"count_equal", count(url, "=")>>,
       <<"has_https", int(contains(lower(url), <<"h", "t", "t", "p", "s">>))>>,
       <<"has_ip", int(re_match_ip(url))>> >>

\* row[key] of a feature row
feature(row, key) == row[CHOOSE i \in DOMAIN row : row[i][1] = key][2]

---------------------------------------------------------------------------
(* JSON values and Python objects. *)

Str(s) == [t |-> "str", s |-> s, items |-> <<>>, pairs |-> <<>>]
List(items) == [t |-> "list", s |-> <<>>, items |-> items, pairs |-> <<>>]
Dict(pairs) == [t |-> "dict", s |-> <<>>, items |-> <<>>, pairs |-> pairs]
JsonNull == [t |-> "null", s |-> <<>>, items |-> <<>>, pairs |-> <<>>]
JsonInt == [t |-> "int", s |-> <<"4", "2">>, items |-> <<>>, pairs |-> <<>>]

\* `key in d` and d[key] of a dict
has_key(d, key) == \E i \in DOMAIN d.pairs : d.pairs[i][1] = key
get(d, key) == d.pairs[CHOOSE i \in DOMAIN d.pairs : d.pairs[i][1] = key][2]

\* isinstance(x, str), isinstance(x, list)
is_str(x) == x.t = "str"
is_list(x) == x.t = "list"

\* `not x` for the values above (42 is the one number)
falsy(x) == x.t = "null" \/ (x.t # "int" /\ x.s = <<>> /\ x.items = <<>> /\ x.pairs = <<>>)

\* the global `model` before any load
None == [kind |-> "None"]

\* A scoring model: what joblib.load / lgb.Booster return.  Its predict is
\* library code; here it is a function of the row's url_length, and it
\* raises for rows beyond maxlen.
Booster(bias, step, maxlen) ==
    [kind |-> "Booster", bias |-> bias, step |-> step, maxlen |-> maxlen]

\* any other unpickled object: a dict d
DictObj(d) == [kind |-> "dict", d |-> d]

\* the models the files below hold: M1 scores by length, M2 always 0.5, M3
\* just above 0.5, M4 scores by length and rejects rows of long urls
M1 == Booster(0, 1, 1000)
M2 == Booster(Half, 0, 1000)
M3 == Booster(Half + 1, 0, 1000)
M4 == Booster(0, 1, 15)

\* model.predict(X_new)[0]
predict_proba(m, row) ==
    IF m.kind = "Booster"
    THEN IF feature(row, "url_length") > m.maxlen
         THEN Raise("Input rejected by the model")
         ELSE Ok((m.bias + m.step * feature(row, "url_length")) % (ProbMax + 1))
    ELSE IF m.kind = "dict"
    THEN Raise("'dict' object has no attribute 'predict'")
    ELSE Raise("'NoneType' object has no attribute 'predict'")

---------------------------------------------------------------------------
(* The files load_model probes. *)

Absent == [exists |-> FALSE]
Corrupt == [exists |-> TRUE, loads |-> FALSE]
Pickle(obj) == [exists |-> TRUE, loads |-> TRUE, obj |-> obj]

FileSystems ==
    [ clean    : {Absent, Corrupt, Pickle(M1), Pickle(M2)},
      phishing : {Absent, Corrupt, Pickle(DictObj([model |-> M3, accuracy |-> 97])),
                  Pickle(DictObj([accuracy |-> 97]))},
      txt      : {Absent, Corrupt, Pickle(M4)},
      joblib   : {Absent, Corrupt, Pickle(M1)} ]

\* joblib.load(path), lgb.Booster(model_file=path)
load_file(f) == IF f.exists /\ f.loads THEN Ok(f.obj) ELSE Raise("cannot load")

\* phishing_model.pkl: the dict package is unwrapped, with model_clean.pkl
\* as the fallback when the load raises
load_phishing(fs) ==
    LET r == load_file(fs.phishing)
    IN IF r.ok
       THEN IF r.val.kind = "dict" /\ "model" \in DOMAIN r.val.d
            THEN Ok(r.val.d.model)
            ELSE r
       ELSE IF fs.clean.exists THEN load_file(fs.clean) ELSE r

\* load_model that goes on to the next existing file when a load raises
load_model_fallthrough(fs) ==
    LET a == IF fs.clean.exists THEN load_file(fs.clean) ELSE Raise("absent")
        b == IF fs.phishing.exists THEN load_phishing(fs) ELSE Raise("absent")
        c == IF fs.txt.exists THEN load_file(fs.txt) ELSE Raise("absent")
        e == IF fs.joblib.exists THEN load_file(fs.joblib) ELSE Raise("absent")
    IN IF a.ok THEN a.val
       ELSE IF b.ok THEN b.val
       ELSE IF c.ok THEN c.val
       ELSE IF e.ok THEN e.val
       ELSE None

\* app.py load_model: the value it leaves in the global `model`; its except
\* clause catches whatever the try block raises
load_model(fs) ==
    LET r == IF fs.clean.exists THEN load_file(fs.clean)
             ELSE IF fs.phishing.exists THEN load_phishing(fs)
             ELSE IF fs.txt.exists THEN load_file(fs.txt)
             ELSE IF fs.joblib.exists THEN load_file(fs.joblib)
             ELSE Raise("No model file found")
    IN IF r.ok THEN r.val ELSE None

\* simple_app.py load_model
simple_load_model(fs) ==
    LET r == load_file(fs.clean)
    IN IF r.ok THEN r.val ELSE None

---------------------------------------------------------------------------
(* The decision policy and the handlers.  A handler yields its response    *)
(* and the extract_features / model.predict calls it made.                 *)

\* the modules each file imports
app_imports == {"flask", "pandas", "lightgbm", "re", "joblib", "os", "typing"}
simple_app_imports == {"flask", "pandas", "joblib", "os"}
save_model_imports == {"pandas", "numpy", "re", "joblib", "lightgbm", "sklearn"}

\* a call of extract_features(x) in a module that imports `imports`: a
\* non-string has no len() or no split(), and the row's last entry needs re
call_extract_features(imports, x) ==
    IF ~is_str(x)
    THEN Raise(IF is_list(x) THEN "'list' object has no attribute 'split'"
               ELSE "object has no len()")
    ELSE IF "re" \notin imports
    THEN Raise("name 're' is not defined")
    ELSE Ok(extract_features(x.s))

\* the batch limit
MaxBatch == 100

\* prediction with >= for >
prediction_ge(p) == IF p >= Half THEN "phishing" ELSE "safe"

\* is_phishing = probability > 0.5; "phishing" if is_phishing else "safe"
prediction(p) == IF p > Half THEN "phishing" ELSE "safe"

\* confidence as max(probability, 1 - probability)
confidence_margin(p) == IF p >= ProbMax - p THEN p ELSE ProbMax - p

\* abs(probability - 0.5) * 2
confidence(p) == (IF p - Half >= 0 THEN p - Half ELSE Half - p) * 2

Reply(code, body, ex, sc) ==
    [resp |-> [code |-> code, body |-> body], extracted |-> ex, scored |-> sc]

Error(code, msg) == Reply(code, [error |-> msg, status |-> "error"], <<>>, <<>>)

\* is_none with the check left out
is_none_skipped(m) == FALSE

\* `model is None`
is_none(m) == m.kind = "None"

\* not isinstance(url, str) or len(url.strip()) == 0
invalid_url(url) == ~is_str(url) \/ Len(strip(url.s)) = 0

\* the body of predict (app.py and simple_app.py have the same text, and
\* differ in what their module imports)
predict_in(imports, m, data) ==
    IF is_none(m) THEN Error(500, "Model not loaded")
    ELSE IF falsy(data) THEN Error(400, "URL is required")
    ELSE IF data.t # "dict"
    THEN Error(500, "Prediction failed: argument of type 'int' is not iterable")
    ELSE IF ~has_key(data, "url") THEN Error(400, "URL is required")
    ELSE IF invalid_url(get(data, "url")) THEN Error(400, "Invalid URL format")
    ELSE LET url == get(data, "url")
             f == call_extract_features(imports, url)
             p == predict_proba(m, f.val)
         IN IF ~f.ok THEN Error(500, "Prediction failed: " \o f.val)
            ELSE IF ~p.ok
            THEN Reply(500, [error |-> "Prediction failed: " \o p.val, status |-> "error"],
                       <<url>>, <<f.val>>)
            ELSE Reply(200,
                       [url |-> url,
                        prediction |-> prediction(p.val),
                        probability |-> p.val,
                        confidence |-> confidence(p.val),
                        status |-> "success"],
                       <<url>>, <<f.val>>)

\* app.py predict
predict(m, data) == predict_in(app_imports, m, data)

\* simple_app.py predict
simple_predict(m, data) == predict_in(simple_app_imports, m, data)

\* predict_batch's loop body for an invalid item: the entry it appends
invalid_entry(url) ==
    [results |-> <<[url |-> url, error |-> "Invalid URL format"]>>,
     extracted |-> <<>>, scored |-> <<>>]

\* scored_entry with the confidence of the other variant, max(p, 1 - p)
scored_entry_margin(m, url) ==
    LET f == call_extract_features(app_imports, url)
        p == predict_proba(m, f.val)
    IN IF ~f.ok
       THEN [results |-> <<[url |-> url, error |-> "Prediction failed: " \o f.val]>>,
             extracted |-> <<>>, scored |-> <<>>]
       ELSE IF ~p.ok
       THEN [results |-> <<[url |-> url, error |-> "Prediction failed: " \o p.val]>>,
             extracted |-> <<url>>, scored |-> <<f.val>>]
       ELSE [results |-> <<[url |-> url,
                            prediction |-> prediction(p.val),
                            probability |-> p.val,
                            confidence |-> confidence_margin(p.val)]>>,
             extracted |-> <<url>>, scored |-> <<f.val>>]

\* predict_batch's loop body for a valid item: the entry it appends
scored_entry(m, url) ==
    LET f == call_extract_features(app_imports, url)
        p == predict_proba(m, f.val)
    IN IF ~f.ok
       THEN [results |-> <<[url |-> url, error |-> "Prediction failed: " \o f.val]>>,
             extracted |-> <<>>, scored |-> <<>>]
       ELSE IF ~p.ok
       THEN [results |-> <<[url |-> url, error |-> "Prediction failed: " \o p.val]>>,
             extracted |-> <<url>>, scored |-> <<f.val>>]
       ELSE [results |-> <<[url |-> url,
                            prediction |-> prediction(p.val),
                            probability |-> p.val,
                            confidence |-> confidence(p.val)]>>,
             extracted |-> <<url>>, scored |-> <<f.val>>]

\* batch_item with the append before `continue` left out
batch_item_no_append(m, url) ==
    IF invalid_url(url)
    THEN [results |-> <<>>, extracted |-> <<>>, scored |-> <<>>]
    ELSE scored_entry(m, url)

\* one iteration of predict_batch's loop: what it appends to results
batch_item(m, url) ==
    IF invalid_url(url) THEN invalid_entry(url) ELSE scored_entry(m, url)

\* predict_batch's loop over urls[lo..hi]: what it appends to results, and
\* the calls it makes.  An iteration carries nothing to the next but the
\* results list, so the loop over a range is the loop over its first half
\* followed by the loop over its second half.
RECURSIVE batch_loop(_, _, _, _)
batch_loop(m, urls, lo, hi) ==
    IF lo > hi THEN [results |-> <<>>, extracted |-> <<>>, scored |-> <<>>]
    ELSE IF lo = hi THEN batch_item(m, urls[lo])
    ELSE LET mid == (lo + hi) \div 2
             a == batch_loop(m, urls, lo, mid)
             b == batch_loop(m, urls, mid + 1, hi)
         IN [results |-> a.results \o b.results,
             extracted |-> a.extracted \o b.extracted,
             scored |-> a.scored \o b.scored]

\* batch_reply without the try around the loop body: a raising item ends
\* the batch in the handler's outer except
batch_reply_abort(m, urls) ==
    LET out == batch_loop(m, urls, 1, Len(urls))
    IN IF \E i \in 1..Len(urls) :
             ~invalid_url(urls[i]) /\ "error" \in DOMAIN out.results[i]
       THEN Error(500, "Batch prediction failed")
       ELSE Reply(200,
                  [results |-> out.results,
                   total_processed |-> Len(out.results),
                   status |-> "success"],
                  out.extracted, out.scored)

\* predict_batch once the request is accepted: the loop and the response
batch_reply(m, urls) ==
    LET out == batch_loop(m, urls, 1, Len(urls))
    IN Reply(200,
             [results |-> out.results,
              total_processed |-> Len(out.results),
              status |-> "success"],
             out.extracted, out.scored)

\* too_many with >= for >
too_many_ge(urls) == Len(urls) >= MaxBatch

\* len(urls) > 100
too_many(urls) == Len(urls) > MaxBatch

\* predict_batch with the payload checks ahead of the model-loaded check
predict_batch_payload_first(m, data) ==
    IF falsy(data) THEN Error(400, "URLs array is required")
    ELSE IF data.t # "dict"
    THEN Error(500, "Batch prediction failed: argument of type 'int' is not iterable")
    ELSE IF ~has_key(data, "urls") THEN Error(400, "URLs array is required")
    ELSE IF ~is_list(get(data, "urls")) \/ Len(get(data, "urls").items) = 0
    THEN Error(400, "URLs must be a non-empty array")
    ELSE IF too_many(get(data, "urls").items)
    THEN Error(400, "Maximum 100 URLs allowed per batch")
    ELSE IF is_none(m) THEN Error(500, "Model not loaded")
    ELSE batch_reply(m, get(data, "urls").items)

\* app.py predict_batch
predict_batch(m, data) ==
    IF is_none(m) THEN Error(500, "Model not loaded")
    ELSE IF falsy(data) THEN Error(400, "URLs array is required")
    ELSE IF data.t # "dict"
    THEN Error(500, "Batch prediction failed: argument of type 'int' is not iterable")
    ELSE IF ~has_key(data, "urls") THEN Error(400, "URLs array is required")
    ELSE IF ~is_list(get(data, "urls")) \/ Len(get(data, "urls").items) = 0
    THEN Error(400, "URLs must be a non-empty array")
    ELSE IF too_many(get(data, "urls").items)
    THEN Error(400, "Maximum 100 URLs allowed per batch")
    ELSE batch_reply(m, get(data, "urls").items)

\* app.py get_features
get_features(data) ==
    IF falsy(data) THEN Error(400, "URL is required")
    ELSE IF data.t # "dict"
    THEN Error(500, "Feature extraction failed: argument of type 'int' is not iterable")
    ELSE IF ~has_key(data, "url") THEN Error(400, "URL is required")
    ELSE IF invalid_url(get(data, "url")) THEN Error(400, "Invalid URL format")
    ELSE LET url == get(data, "url")
             f == call_extract_features(app_imports, url)
         IN IF ~f.ok THEN Error(500, "Feature extraction failed: " \o f.val)
            ELSE Reply(200, [url |-> url, features |-> f.val, status |-> "success"],
                       <<url>>, <<>>)

\* os.path.exists of the model files home and debug report
model_files(fs) ==
    [clean |-> fs.clean.exists, txt |-> fs.txt.exists, phishing |-> fs.phishing.exists]

\* app.py home
home(m, fs) ==
    Reply(200,
          [message |-> "URL Phishing Detection API",
           status |-> "running",
           model_loaded |-> ~is_none(m),
           model_status |-> IF ~is_none(m) THEN "loaded" ELSE "not loaded",
           available_files |-> model_files(fs)],
          <<>>, <<>>)

\* simple_app.py home
simple_home(m) ==
    Reply(200,
          [message |-> "URL Phishing Detection API",
           status |-> "running",
           model_loaded |-> ~is_none(m)],
          <<>>, <<>>)

\* app.py debug: the global `model` it leaves
debug_model(m, fs) == IF is_none(m) THEN load_model(fs) ELSE m

\* app.py debug: its response
debug(m, fs) ==
    IF is_none(m)
    THEN Reply(200,
               [model_loaded |-> FALSE,
                model_type |-> "None",
                model_files |-> model_files(fs),
                loading_attempt |-> "Attempting to load model...",
                loading_result |-> "Model loading attempted",
                model_loaded_after_attempt |-> ~is_none(load_model(fs))],
               <<>>, <<>>)
    ELSE Reply(200,
               [model_loaded |-> TRUE,
                model_type |-> m.kind,
                model_files |-> model_files(fs)],
               <<>>, <<>>)

---------------------------------------------------------------------------
(* The inputs. *)

Alphabet == {"a", "1", "/", ".", " ", "?"}
SlashAlphabet == {"/", "a"}

\* the strings over alpha of at most n characters
RECURSIVE Strings(_, _)
Strings(alpha, n) ==
    IF n = 0 THEN {<<>>}
    ELSE LET S == Strings(alpha, n - 1)
         IN S \cup {Append(s, c) : s \in {t \in S : Len(t) = n - 1}, c \in alpha}

Google == <<"h", "t", "t", "p", "s", ":", "/", "/", "w", "w", "w", ".", "g", "o", "o", "g", "l", "e", ".", "c", "o", "m">>
Example == <<"h", "t", "t", "p", "s", ":", "/", "/", "w", "w", "w", ".", "e", "x", "a", "m", "p", "l", "e", ".", "c", "o", "m">>
TwoDoubleSlashes == <<"h", "t", "t", "p", ":", "/", "/", "a", ".", "c", "o", "m", "/", "x", "/", "/", "y", "/", "z">>
DottedQuad == <<"h", "t", "t", "p", ":", "/", "/", "1", "9", "2", ".", "1", "6", "8", ".", "1", ".", "1">>
BigOctets == <<"h", "t", "t", "p", ":", "/", "/", "9", "9", "9", ".", "9", "9", "9", ".", "9", "9", "9", ".", "9", "9", "9">>
UpperHttps == <<"H", "T", "T", "P", "S", ":", "/", "/", "x", ".", "c", "o", "m">>
FiveDots == <<"h", "t", "t", "p", "s", ":", "/", "/", "a", ".", "b", ".", "c", ".", "d", ".", "e", ".", "c", "o", "m">>
WithQuery == <<"h", "t", "t", "p", "s", ":", "/", "/", "f", "a", "k", "e", "-", "b", "a", "n", "k", ".", "c", "o", "m", "?", "p", "a", "r", "a", "m", "=", "v", "a", "l", "u", "e">>
TabBlank == <<"\t", " ">>
Bare == <<"a", ".", "c", "o", "m", "/", "p", "a", "t", "h">>

SampleUrls ==
    {Google, Example, TwoDoubleSlashes, DottedQuad, BigOctets, UpperHttps, FiveDots,
     WithQuery, TabBlank, Bare}

Urls == Strings(Alphabet, MaxLen) \cup Strings(SlashAlphabet, MaxSlashLen) \cup SampleUrls

\* what a client may send as a url, a string or not
UrlValues == {Str(s) : s \in Urls} \cup {JsonNull, JsonInt, List(<<Str(Bare)>>)}

\* the sequences over S of at most n items
RECURSIVE Seqs(_, _)
Seqs(S, n) ==
    IF n = 0 THEN {<<>>}
    ELSE LET T == Seqs(S, n - 1)
         IN T \cup {Append(t, x) : t \in {u \in T : Len(u) = n - 1}, x \in S}

BatchItems == {Str(Google), Str(Bare), Str(<<>>), Str(<<" ">>), JsonInt}

\* pat repeated up to n items
Cycle(pat, n) == [i \in 1..n |-> pat[((i - 1) % Len(pat)) + 1]]

LongBatches ==
    {Cycle(pat, n) : pat \in {<<Str(Google)>>, <<Str(Bare), Str(<<>>), Str(Google)>>},
                     n \in {MaxBatch, MaxBatch + 1}}

Batches == Seqs(BatchItems, MaxSmallBatch) \cup LongBatches

\* request.get_json() of a predict or features request
UrlPayloads ==
    {JsonNull, JsonInt, Dict(<<>>), Dict(<< <<"urls", List(<<Str(Bare)>>)>> >>)}
    \cup {Dict(<< <<"url", u>> >>) : u \in UrlValues}

\* request.get_json() of a predict_batch request
BatchPayloads ==
    {JsonNull, JsonInt, Dict(<<>>), Dict(<< <<"url", Str(Bare)>> >>),
     Dict(<< <<"urls", Str(Bare)>> >>), Dict(<< <<"urls", JsonNull>> >>)}
    \cup {Dict(<< <<"urls", List(b)>> >>) : b \in Batches}

---------------------------------------------------------------------------
(* The state machine.  One request is served at a time: a handler takes    *)
(* the request and leaves the response, Respond returns it to the client.  *)
(* A process comes up while no response is pending.                        *)

NoReq == [op |-> "none"]
NoResp == [code |-> 0]

\* A worker thread of app.py: pc is where it stands in its handler, data the
\* payload it serves, seen the value of `model` its model-loaded check read,
\* acc what the handler has built so far (predict_batch's results, debug's
\* debug_info files), out the last response it returned.
Threads == 1..NumThreads
IdleThread == [pc |-> "idle", data |-> JsonNull, seen |-> None, acc |-> <<>>, out |-> NoResp]

Init ==
    /\ started = FALSE
    /\ model = None
    /\ simple_started = FALSE
    /\ simple_model = None
    /\ req = NoReq
    /\ resp = NoResp
    /\ extracted = <<>>
    /\ scored = <<>>
    /\ threads = [t \in Threads |-> IdleThread]

Idle == resp = NoResp

\* a handler of app.py serves req and replies r
Serve(op, data, r) ==
    /\ req' = [op |-> op, data |-> data]
    /\ resp' = r.resp
    /\ extracted' = r.extracted
    /\ scored' = r.scored

\* a script's load_model() call returned, with the files fs on disk: it
\* returns None and raises nothing, its except clause catches every Exception
Boot(op, fs) ==
    /\ req' = [op |-> op, data |-> JsonNull, files |-> fs]
    /\ resp' = [call |-> Ok(None)]

\* app.py run as a script: load_model(), then app.run
Main ==
    /\ ~started /\ Idle
    /\ \E fs \in FileSystems : Boot("main", fs) /\ model' = load_model(fs)
    /\ started' = TRUE
    /\ UNCHANGED <<threads, simple_started, simple_model, extracted, scored>>

\* app.py imported by a WSGI server: the __main__ block does not run
WsgiImport ==
    /\ ~started /\ Idle
    /\ started' = TRUE
    /\ UNCHANGED <<threads, model, simple_started, simple_model, req, resp, extracted, scored>>

Home ==
    /\ started /\ Idle
    /\ \E fs \in FileSystems : Serve("home", JsonNull, home(model, fs))
    /\ UNCHANGED <<threads, started, model, simple_started, simple_model>>

Predict ==
    /\ started /\ Idle
    /\ \E data \in UrlPayloads : Serve("predict", data, predict(model, data))
    /\ UNCHANGED <<threads, started, model, simple_started, simple_model>>

PredictBatch ==
    /\ started /\ Idle
    /\ \E data \in BatchPayloads : Serve("predict_batch", data, predict_batch(model, data))
    /\ UNCHANGED <<threads, started, model, simple_started, simple_model>>

GetFeatures ==
    /\ started /\ Idle
    /\ \E data \in UrlPayloads : Serve("features", data, get_features(data))
    /\ UNCHANGED <<threads, started, model, simple_started, simple_model>>

Debug ==
    /\ started /\ Idle
    /\ \E fs \in FileSystems :
          /\ req' = [op |-> "debug", data |-> JsonNull, files |-> fs]
          /\ resp' = debug(model, fs).resp
          /\ extracted' = <<>>
          /\ scored' = <<>>
          /\ model' = debug_model(model, fs)
    /\ UNCHANGED <<threads, started, simple_started, simple_model>>

\* simple_app.py run as a script
SimpleMain ==
    /\ ~simple_started /\ Idle
    /\ \E fs \in FileSystems : Boot("simple_main", fs) /\ simple_model' = simple_load_model(fs)
    /\ simple_started' = TRUE
    /\ UNCHANGED <<threads, started, model, extracted, scored>>

\* simple_app.py imported by a WSGI server
SimpleWsgiImport ==
    /\ ~simple_started /\ Idle
    /\ simple_started' = TRUE
    /\ UNCHANGED <<threads, started, model, simple_model, req, resp, extracted, scored>>

SimpleHome ==
    /\ simple_started /\ Idle
    /\ Serve("simple_home", JsonNull, simple_home(simple_model))
    /\ UNCHANGED <<threads, started, model, simple_started, simple_model>>

SimplePredict ==
    /\ simple_started /\ Idle
    /\ \E data \in UrlPayloads :
          Serve("simple_predict", data, simple_predict(simple_model, data))
    /\ UNCHANGED <<threads, started, model, simple_started, simple_model>>

\* save_model.py train_model: df['url'].apply(extract_features), one value
\* of the url column; the call returns the row or raises
TrainExtract ==
    /\ Idle
    /\ \E x \in UrlValues :
          LET r == call_extract_features(save_model_imports, x)
          IN /\ req' = [op |-> "extract_features", data |-> x]
             /\ resp' = [call |-> r]
             /\ extracted' = IF r.ok THEN <<x>> ELSE <<>>
             /\ scored' = <<>>
    /\ UNCHANGED <<threads, started, model, simple_started, simple_model>>

\* the response goes back to the client (a script's call returns)
Respond ==
    /\ ~Idle
    /\ req' = NoReq
    /\ resp' = NoResp
    /\ extracted' = <<>>
    /\ scored' = <<>>
    /\ UNCHANGED <<threads, started, model, simple_started, simple_model>>

Next ==
    \/ Main
    \/ WsgiImport
    \/ Home
    \/ Predict
    \/ PredictBatch
    \/ GetFeatures
    \/ Debug
    \/ SimpleMain
    \/ SimpleWsgiImport
    \/ SimpleHome
    \/ SimplePredict
    \/ TrainExtract
    \/ Respond

Spec == Init /\ [][Next]_vars

---------------------------------------------------------------------------
(* app.py under a threaded server (app.run serves each request in its own  *)
(* thread): handlers interleave at their reads and writes of the global    *)
(* `model`.  A step is the code between two such accesses.                 *)

\* the files on disk at the moment of a probe or a load; save_model.py
\* rewrites phishing_model.pkl while the service runs
ThreadFileSystems ==
    [ clean    : {Absent, Pickle(M1)},
      phishing : {Absent, Corrupt, Pickle(DictObj([model |-> M3, accuracy |-> 97]))},
      txt      : {Absent},
      joblib   : {Absent} ]

\* payloads of the concurrent requests
ThreadUrlPayloads ==
    {Dict(<< <<"url", Str(Google)>> >>), Dict(<< <<"url", Str(Bare)>> >>),
     Dict(<< <<"url", Str(<<>>)>> >>)}
ThreadBatchPayloads ==
    {Dict(<< <<"urls", List(<<Str(Bare), Str(Google)>>)>> >>), Dict(<<>>)}

\* predict from `model.predict(X_new)` on, with the value m the global has
\* by then
predict_scoring(m, data) ==
    IF m.kind = "None"
    THEN Error(500, "Prediction failed: 'NoneType' object has no attribute 'predict'")
    ELSE predict(m, data)

\* debug's response after its load_model() call returned
debug_after_load(files, m) ==
    Reply(200,
          [model_loaded |-> FALSE,
           model_type |-> "None",
           model_files |-> files,
           loading_attempt |-> "Attempting to load model...",
           loading_result |-> "Model loading attempted",
           model_loaded_after_attempt |-> ~is_none(m)],
          <<>>, <<>>)

\* thread t returns response r and is free again
Finish(t, r) == threads' = [threads EXCEPT ![t] = [IdleThread EXCEPT !.out = r]]

ThreadFrame == <<started, simple_started, simple_model, req, resp, extracted, scored>>

\* app.py run as a script, before the server takes requests
ThreadedMain ==
    /\ ~started
    /\ \E fs \in ThreadFileSystems : model' = load_model(fs)
    /\ started' = TRUE
    /\ UNCHANGED <<threads, simple_started, simple_model, req, resp, extracted, scored>>

ThreadHome(t) ==
    /\ started /\ threads[t].pc = "idle"
    /\ \E fs \in ThreadFileSystems : Finish(t, home(model, fs).resp)
    /\ UNCHANGED <<model, ThreadFrame>>

ThreadFeatures(t) ==
    /\ started /\ threads[t].pc = "idle"
    /\ \E data \in ThreadUrlPayloads : Finish(t, get_features(data).resp)
    /\ UNCHANGED <<model, ThreadFrame>>

\* predict up to the features: `if model is None` and the payload checks
ThreadPredictCheck(t) ==
    /\ started /\ threads[t].pc = "idle"
    /\ \E data \in ThreadUrlPayloads :
          LET r == predict(model, data)
          IN IF r.scored = <<>>
             THEN Finish(t, r.resp)
             ELSE threads' = [threads EXCEPT ![t] =
                      [pc |-> "predict_score", data |-> data, seen |-> model,
                       acc |-> <<>>, out |-> NoResp]]
    /\ UNCHANGED <<model, ThreadFrame>>

\* predict from model.predict(X_new) to the response
ThreadPredictScore(t) ==
    /\ threads[t].pc = "predict_score"
    /\ Finish(t, predict_scoring(model, threads[t].data).resp)
    /\ UNCHANGED <<model, ThreadFrame>>

\* predict_batch up to its loop
ThreadBatchCheck(t) ==
    /\ started /\ threads[t].pc = "idle"
    /\ \E data \in ThreadBatchPayloads :
          LET r == predict_batch(model, data)
          IN IF r.resp.code # 200
             THEN Finish(t, r.resp)
             ELSE threads' = [threads EXCEPT ![t] =
                      [pc |-> "batch_loop", data |-> data, seen |-> model,
                       acc |-> <<>>, out |-> NoResp]]
    /\ UNCHANGED <<model, ThreadFrame>>

\* one iteration of predict_batch's loop, and the response after the last
ThreadBatchItem(t) ==
    /\ threads[t].pc = "batch_loop"
    /\ LET urls == get(threads[t].data, "urls").items
           acc == threads[t].acc \o batch_item(model, urls[Len(threads[t].acc) + 1]).results
       IN IF Len(acc) = Len(urls)
          THEN Finish(t, [code |-> 200,
                          body |-> [results |-> acc, total_processed |-> Len(acc),
                                    status |-> "success"]])
          ELSE threads' = [threads EXCEPT ![t].acc = acc]
    /\ UNCHANGED <<model, ThreadFrame>>

\* debug up to `if model is None`
ThreadDebugCheck(t) ==
    /\ started /\ threads[t].pc = "idle"
    /\ \E fs \in ThreadFileSystems :
          IF is_none(model)
          THEN threads' = [threads EXCEPT ![t] =
                   [pc |-> "debug_load", data |-> JsonNull, seen |-> model,
                    acc |-> <<model_files(fs)>>, out |-> NoResp]]
          ELSE Finish(t, debug(model, fs).resp)
    /\ UNCHANGED <<model, ThreadFrame>>

\* debug's load_model(): it assigns the global
ThreadDebugLoad(t) ==
    /\ threads[t].pc = "debug_load"
    /\ \E fs \in ThreadFileSystems : model' = load_model(fs)
    /\ threads' = [threads EXCEPT ![t].pc = "debug_reply"]
    /\ UNCHANGED ThreadFrame

\* debug after load_model(): model_loaded_after_attempt and the response
ThreadDebugReply(t) ==
    /\ threads[t].pc = "debug_reply"
    /\ Finish(t, debug_after_load(threads[t].acc[1], model).resp)
    /\ UNCHANGED <<model, ThreadFrame>>

ThreadedNext ==
    \/ ThreadedMain
    \/ WsgiImport
    \/ \E t \in Threads : ThreadHome(t)
    \/ \E t \in Threads : ThreadFeatures(t)
    \/ \E t \in Threads : ThreadPredictCheck(t)
    \/ \E t \in Threads : ThreadPredictScore(t)
    \/ \E t \in Threads : ThreadBatchCheck(t)
    \/ \E t \in Threads : ThreadBatchItem(t)
    \/ \E t \in Threads : ThreadDebugCheck(t)
    \/ \E t \in Threads : ThreadDebugLoad(t)
    \/ \E t \in Threads : ThreadDebugReply(t)

ThreadedSpec == Init /\ [][ThreadedNext]_vars

---------------------------------------------------------------------------
(* The properties.  While a response is pending, req is the request it     *)
(* answers and model the model it was computed with.                       *)

\* a model is loaded
Loaded(m) == m.kind # "None"

\* data is a predict_batch payload whose urls is a list
HasUrlList(data) == data.t = "dict" /\ has_key(data, "urls") /\ is_list(get(data, "urls"))

\* the urls of the pending predict_batch request
BatchUrls == get(req.data, "urls").items

\* a predict_batch request that passes every request-level check is pending
BatchAccepted ==
    /\ req.op = "predict_batch"
    /\ Loaded(model)
    /\ HasUrlList(req.data)
    /\ Len(BatchUrls) \in 1..MaxBatch

IsVerdict(e) == "prediction" \in DOMAIN e
IsErrorEntry(e) == "error" \in DOMAIN e

\* C1: an accepted batch gets exactly one entry per url, in input order:
\* len(results) = total_processed = len(urls) and results[i].url = urls[i],
\* whatever the mix of valid and invalid items.
C1_BatchOneToOne ==
    BatchAccepted =>
        /\ resp.code = 200
        /\ Len(resp.body.results) = Len(BatchUrls)
        /\ resp.body.total_processed = Len(BatchUrls)
        /\ \A i \in 1..Len(BatchUrls) : resp.body.results[i].url = BatchUrls[i]

\* C1's case: a full batch of 100 that mixes valid and invalid items
C1_Witness ==
    /\ BatchAccepted
    /\ Len(BatchUrls) = MaxBatch
    /\ Len(resp.body.results) = MaxBatch
    /\ \E i, j \in 1..MaxBatch :
          /\ IsVerdict(resp.body.results[i])
          /\ IsErrorEntry(resp.body.results[j])
          /\ invalid_url(BatchUrls[j])

\* an item of a batch that fails: not a string, blank, or its feature
\* extraction or its scoring raises
BadItem(m, url) ==
    \/ invalid_url(url)
    \/ ~call_extract_features(app_imports, url).ok
    \/ ~predict_proba(m, call_extract_features(app_imports, url).val).ok

\* the items of urls that do not fail, in order
GoodItems(m, urls) == SelectSeq(urls, LAMBDA u : ~BadItem(m, u))

\* C2: a failing item never aborts the batch: it yields one entry with an
\* error and no prediction at its own index, the response is a success, and
\* every other item gets the verdict it gets in the batch without the
\* failing items.
C2_BadItemIsolated ==
    BatchAccepted =>
        LET urls == BatchUrls
        IN /\ resp.code = 200
           /\ resp.body.status = "success"
           /\ Len(resp.body.results) = Len(urls)
           /\ \A i \in 1..Len(urls) :
                 LET e == resp.body.results[i]
                 IN IF BadItem(model, urls[i])
                    THEN /\ IsErrorEntry(e)
                         /\ ~IsVerdict(e)
                         /\ e.url = urls[i]
                    ELSE DOMAIN e = {"url", "prediction", "probability", "confidence"}
           /\ SelectSeq(resp.body.results, IsVerdict)
                 = batch_reply(model, GoodItems(model, urls)).resp.body.results

\* C2's case: one batch with an invalid item, an item whose scoring raises
\* and an item that gets its verdict
C2_Witness ==
    /\ BatchAccepted
    /\ Len(BatchUrls) = 3
    /\ \E i, j, k \in 1..3 :
          /\ invalid_url(BatchUrls[i])
          /\ resp.body.results[i].error = "Invalid URL format"
          /\ ~invalid_url(BatchUrls[j])
          /\ IsErrorEntry(resp.body.results[j])
          /\ IsVerdict(resp.body.results[k])

\* C3: a batch of more than 100 urls is rejected as a whole before any item
\* is processed (no extract_features call, no scoring, no results), and a
\* batch of exactly 100 is processed.
C3_BatchLimit ==
    (req.op = "predict_batch" /\ Loaded(model) /\ HasUrlList(req.data)) =>
        /\ Len(BatchUrls) > MaxBatch =>
              /\ resp.code = 400
              /\ resp.body.error = "Maximum 100 URLs allowed per batch"
              /\ resp.body.status = "error"
              /\ "results" \notin DOMAIN resp.body
              /\ extracted = <<>>
              /\ scored = <<>>
        /\ Len(BatchUrls) = MaxBatch =>
              /\ resp.code = 200
              /\ Len(resp.body.results) = MaxBatch

\* C3's case: a batch of 101 urls was rejected
C3_Witness ==
    /\ req.op = "predict_batch"
    /\ Loaded(model)
    /\ HasUrlList(req.data)
    /\ Len(BatchUrls) = MaxBatch + 1
    /\ resp.code = 400

\* the verdicts of the pending response: the body of a predict response, or
\* the verdict entries of a predict_batch response
Verdicts ==
    IF req.op \in {"predict", "simple_predict"} /\ resp.code = 200
    THEN {resp.body}
    ELSE IF req.op = "predict_batch" /\ resp.code = 200
    THEN {resp.body.results[i] : i \in {j \in 1..Len(resp.body.results) :
                                           IsVerdict(resp.body.results[j])}}
    ELSE {}

\* C4: a verdict is "phishing" exactly when its probability is above 0.5,
\* and "safe" otherwise; 0.5 itself is "safe".
C4_StrictThreshold ==
    \A v \in Verdicts :
        /\ v.prediction \in {"phishing", "safe"}
        /\ v.prediction = "phishing" <=> v.probability > Half
        /\ v.probability = Half => v.prediction = "safe"

\* C4's case: predict answered for a probability of exactly 0.5
C4_Witness ==
    /\ req.op = "predict"
    /\ resp.code = 200
    /\ resp.body.probability = Half
    /\ resp.body.prediction = "safe"

\* C5: a verdict's confidence is twice the distance of its probability from
\* 0.5: within [0, 1], 0 exactly at 0.5, 1 exactly at 0 and 1, and the same
\* for p and 1 - p.
C5_Confidence ==
    \A v \in Verdicts :
        LET p == v.probability
            c == v.confidence
        IN /\ p \in 0..ProbMax
           /\ c = IF p >= Half THEN 2 * p - ProbMax ELSE ProbMax - 2 * p
           /\ c \in 0..ProbMax
           /\ c = 0 <=> p = Half
           /\ c = ProbMax <=> p \in {0, ProbMax}
           /\ \A w \in Verdicts : w.probability = ProbMax - p => w.confidence = c

\* C5's case: one batch with verdicts for p and 1 - p, and p # 0.5
C5_Witness ==
    /\ req.op = "predict_batch"
    /\ \E v, w \in Verdicts :
          /\ v.probability < Half
          /\ w.probability = ProbMax - v.probability
          /\ w.confidence = v.confidence

\* data is a predict or features payload that carries a url
HasUrl(data) == data.t = "dict" /\ has_key(data, "url")

\* the url of the pending predict or features request
ReqUrl == get(req.data, "url")

\* the feature rows produced while serving req, each with the url it is of
Rows ==
    {<<extracted[i].s, scored[i]>> : i \in 1..Len(scored)}
    \cup (IF req.op = "features" /\ resp.code = 200
          THEN {<<ReqUrl.s, resp.body.features>>} ELSE {})
    \cup (IF req.op = "extract_features" /\ resp.call.ok
          THEN {<<req.data.s, resp.call.val>>} ELSE {})

\* C6: every operation that takes a url (extract_features itself, the
\* features operation, predict, each item of predict_batch) fails with an
\* invalid-input error for a url that is empty, whitespace-only or not a
\* string, before any feature is computed or the model is scored.
C6_InvalidRejectedFirst ==
    /\ (req.op = "extract_features" /\ invalid_url(req.data)) =>
          /\ ~resp.call.ok
          /\ extracted = <<>>
    /\ (/\ \/ req.op = "features"
           \/ req.op = "predict" /\ Loaded(model)
           \/ req.op = "simple_predict" /\ Loaded(simple_model)
        /\ HasUrl(req.data)
        /\ invalid_url(ReqUrl)) =>
          /\ resp.code = 400
          /\ resp.body.error = "Invalid URL format"
          /\ extracted = <<>>
          /\ scored = <<>>
    /\ BatchAccepted =>
          /\ \A i \in 1..Len(BatchUrls) :
                invalid_url(BatchUrls[i]) =>
                    resp.body.results[i].error = "Invalid URL format"
          /\ \A k \in 1..Len(extracted) : ~invalid_url(extracted[k])
          /\ Len(scored) <= Len(extracted)

\* C7: with no model loaded predict and predict_batch answer "Model not
\* loaded", and a verdict or a batch result is only produced with a model
\* loaded.
C7_ModelNotLoaded ==
    /\ (req.op \in {"predict", "predict_batch"} /\ ~Loaded(model)) =>
          /\ resp.code = 500
          /\ resp.body.error = "Model not loaded"
    /\ (req.op = "simple_predict" /\ ~Loaded(simple_model)) =>
          /\ resp.code = 500
          /\ resp.body.error = "Model not loaded"
    /\ (req.op \in {"predict", "predict_batch"} /\ resp.code = 200) => Loaded(model)
    /\ (req.op = "simple_predict" /\ resp.code = 200) => Loaded(simple_model)

\* C7's case: predict was asked for a valid url with no model loaded
C7_Witness ==
    /\ req.op = "predict"
    /\ ~Loaded(model)
    /\ HasUrl(req.data)
    /\ ~invalid_url(ReqUrl)
    /\ resp.body.error = "Model not loaded"

\* C8: in app.py and in simple_app.py, predict for a well-formed url, with
\* a model loaded whose scoring does not fail, answers with a success
\* verdict, never with "Prediction failed".
C8_NoPredictionFailed ==
    (/\ \/ req.op = "predict" /\ Loaded(model)
           /\ HasUrl(req.data) /\ ~invalid_url(ReqUrl)
           /\ predict_proba(model, extract_features(ReqUrl.s)).ok
        \/ req.op = "simple_predict" /\ Loaded(simple_model)
           /\ HasUrl(req.data) /\ ~invalid_url(ReqUrl)
           /\ predict_proba(simple_model, extract_features(ReqUrl.s)).ok) =>
        /\ resp.code = 200
        /\ resp.body.status = "success"
        /\ IsVerdict(resp.body)

\* the places where "//" occurs in s
DoubleSlashes(s) == {i \in 1..(Len(s) - 1) : s[i] = "/" /\ s[i + 1] = "/"}

\* the number of characters of s after its first "/" at or after place from,
\* 0 when there is none
AfterFirstSlash(s, from) ==
    LET slashes == {i \in from..Len(s) : s[i] = "/"}
    IN IF slashes = {} THEN 0 ELSE Len(s) - Min(slashes)

\* the "//" of s that a left-to-right scan without overlap finds: those
\* that start after an even number of "/" in a row
SplitPoints(s) ==
    {i \in DoubleSlashes(s) :
        LET others == {k \in 1..(i - 1) : s[k] # "/"}
            run == IF others = {} THEN i - 1 ELSE i - 1 - Max(others)
        IN run % 2 = 0}

\* C9 as stated: path_length is the number of characters after the first
\* "/" that follows the first "//" of url (the whole url when it has none).
C9_AfterFirstDoubleSlash ==
    \A r \in Rows :
        feature(r[2], "path_length") =
            AfterFirstSlash(r[1], IF DoubleSlashes(r[1]) = {} THEN 1
                                  ELSE Min(DoubleSlashes(r[1])) + 2)

\* C9 amended: path_length is the number of characters after the first "/"
\* of the last piece of url.split("//"), the text after the last "//" that
\* a left-to-right scan without overlap finds (the whole url when it has
\* none), and 0 when that piece has no "/".
C9_AfterLastDoubleSlash ==
    \A r \in Rows :
        feature(r[2], "path_length") =
            AfterFirstSlash(r[1], IF SplitPoints(r[1]) = {} THEN 1
                                  ELSE Max(SplitPoints(r[1])) + 2)

\* C9's case: the row of a url with two "//", whose path_length is counted
\* in the piece after the second
C9_Witness ==
    \E r \in Rows :
        /\ r[1] = TwoDoubleSlashes
        /\ Cardinality(SplitPoints(r[1])) = 2
        /\ feature(r[2], "path_length") = 1

FeatureOrder ==
    <<"url_length", "path_length", "query_length", "num_digits", "num_letters",
      "num_special", "count_dot", "count_dash", "count_slash", "count_at",
      "count_qmark", "count_percent", "count_equal", "has_https", "has_ip">>

\* C10: the row of a non-empty string has exactly the 15 named fields in
\* the fixed order, every value a non-negative integer, has_https and
\* has_ip 0 or 1, and count_dot = min(number of ".", 4).
C10_FeatureRow ==
    \A r \in Rows :
        r[1] # <<>> =>
            /\ Len(r[2]) = 15
            /\ [i \in 1..Len(r[2]) |-> r[2][i][1]] = FeatureOrder
            /\ \A i \in 1..Len(r[2]) : r[2][i][2] \in Nat
            /\ feature(r[2], "has_https") \in {0, 1}
            /\ feature(r[2], "has_ip") \in {0, 1}
            /\ feature(r[2], "count_dot") <= 4
            /\ LET dots == Cardinality({i \in 1..Len(r[1]) : r[1][i] = "."})
               IN feature(r[2], "count_dot") = IF dots < 4 THEN dots ELSE 4

\* C10's case: the row of a url with five dots, count_dot capped at 4
C10_Witness ==
    \E r \in Rows :
        /\ r[1] = FiveDots
        /\ Cardinality({i \in 1..Len(r[1]) : r[1][i] = "."}) = 5
        /\ feature(r[2], "count_dot") = 4
        /\ Len(r[2]) = 15

\* a thread stands between its model-loaded check and a scoring call
Scoring(t) == threads[t].pc \in {"predict_score", "batch_loop"}

\* C11: the model is immutable shared state under concurrent requests: the
\* global `model` a request scores with is the one its model-loaded check
\* read, and a model that is loaded is never unloaded or replaced.
C11_ModelImmutable ==
    /\ [](\A t \in Threads : Scoring(t) => model = threads[t].seen)
    /\ [][Loaded(model) => model' = model]_vars

\* C11's failure as the client sees it: a predict request that passed the
\* model-loaded check finds the global unloaded at model.predict
C11_ScoredUnloaded ==
    \E t \in Threads :
        /\ threads[t].out.code = 500
        /\ threads[t].out.body.error =
               "Prediction failed: 'NoneType' object has no attribute 'predict'"

\* the response of predict for the one url u, with model m
PredictOf(m, u) == predict(m, Dict(<< <<"url", u>> >>)).resp

\* C12: predict_batch agrees with predict: with the same loaded model, the
\* entry of an accepted batch for an item u carries the prediction,
\* probability and confidence of predict's response for u when predict
\* succeeds, and is an error entry when predict fails; an item predict
\* rejects as "Invalid URL format" is an error entry saying so.
C12_BatchAgreesWithPredict ==
    BatchAccepted =>
        \A i \in 1..Len(BatchUrls) :
            LET e == resp.body.results[i]
                r == PredictOf(model, BatchUrls[i])
            IN /\ r.code = 200 =>
                     /\ IsVerdict(e)
                     /\ e.prediction = r.body.prediction
                     /\ e.probability = r.body.probability
                     /\ e.confidence = r.body.confidence
               /\ r.code # 200 => IsErrorEntry(e) /\ ~IsVerdict(e)
               /\ (r.code = 400 /\ r.body.error = "Invalid URL format") =>
                     e.error = "Invalid URL format"

\* C12's case: a batch whose last item is scored after an invalid item, with
\* a probability off the ends of the scale, the same as predict gives it
C12_Witness ==
    /\ BatchAccepted
    /\ \E i, j \in 1..Len(BatchUrls) :
          /\ i < j
          /\ PredictOf(model, BatchUrls[i]).code = 400
          /\ IsErrorEntry(resp.body.results[i])
          /\ PredictOf(model, BatchUrls[j]).code = 200
          /\ IsVerdict(resp.body.results[j])
          /\ resp.body.results[j].probability \in 1..(ProbMax - 1)
          /\ resp.body.results[j].confidence =
                 PredictOf(model, BatchUrls[j]).body.confidence

\* the pending response is the error msg with status code
Rejected(code, msg) ==
    /\ resp.code = code
    /\ resp.body.error = msg
    /\ resp.body.status = "error"
    /\ extracted = <<>>
    /\ scored = <<>>

\* a payload with no usable key: nothing, an empty object, or an object
\* without the key
Lacks(data, key) == falsy(data) \/ (data.t = "dict" /\ ~has_key(data, key))

\* C13: request errors are checked in a fixed order.  predict: model
\* loaded, then 'url' present, then url valid.  predict_batch: model
\* loaded, then 'urls' present, then a non-empty list, then at most 100
\* items, then each item.  So with no model loaded every predict and
\* predict_batch request gets "Model not loaded" whatever its payload, while
\* features answers with the features of a valid url whether or not a model
\* is loaded.
C13_ErrorOrder ==
    /\ req.op = "predict" =>
          /\ ~Loaded(model) => Rejected(500, "Model not loaded")
          /\ (Loaded(model) /\ Lacks(req.data, "url")) => Rejected(400, "URL is required")
          /\ (Loaded(model) /\ HasUrl(req.data) /\ invalid_url(ReqUrl)) =>
                Rejected(400, "Invalid URL format")
    /\ req.op = "predict_batch" =>
          /\ ~Loaded(model) => Rejected(500, "Model not loaded")
          /\ (Loaded(model) /\ Lacks(req.data, "urls")) =>
                Rejected(400, "URLs array is required")
          /\ (/\ Loaded(model) /\ req.data.t = "dict" /\ has_key(req.data, "urls")
              /\ (~is_list(get(req.data, "urls")) \/ BatchUrls = <<>>)) =>
                Rejected(400, "URLs must be a non-empty array")
          /\ (Loaded(model) /\ HasUrlList(req.data) /\ Len(BatchUrls) > MaxBatch) =>
                Rejected(400, "Maximum 100 URLs allowed per batch")
          /\ BatchAccepted =>
                /\ resp.code = 200
                /\ \A i \in 1..Len(BatchUrls) :
                      invalid_url(BatchUrls[i]) =>
                          resp.body.results[i].error = "Invalid URL format"
    /\ (req.op = "features" /\ HasUrl(req.data) /\ ~invalid_url(ReqUrl)) =>
          /\ resp.code = 200
          /\ resp.body.status = "success"
          /\ resp.body.features = extract_features(ReqUrl.s)

\* C13's case: with no model loaded, a batch of 101 urls with blank items
\* among them was answered "Model not loaded"
C13_Witness ==
    /\ req.op = "predict_batch"
    /\ ~Loaded(model)
    /\ HasUrlList(req.data)
    /\ Len(BatchUrls) > MaxBatch
    /\ \E i \in 1..Len(BatchUrls) : invalid_url(BatchUrls[i])
    /\ resp.body.error = "Model not loaded"

\* features answered for a valid url while no model was loaded
C13_FeaturesWithoutModel ==
    /\ req.op = "features"
    /\ ~Loaded(model)
    /\ resp.code = 200
    /\ resp.body.features = extract_features(Google)

\* the files load_model probes, highest priority first
Priority == <<"clean", "phishing", "txt", "joblib">>

\* some model file exists
AnyFile(fs) == \E i \in 1..Len(Priority) : fs[Priority[i]].exists

\* the place in Priority of the first file that exists
Top(fs) == Min({i \in 1..Len(Priority) : fs[Priority[i]].exists})

\* the object load_model takes from a file that loaded: the file's object,
\* or its 'model' entry for a dict package in phishing_model.pkl
Candidate(fs) ==
    LET f == fs[Priority[Top(fs)]]
    IN IF Priority[Top(fs)] = "phishing" /\ f.obj.kind = "dict" /\ "model" \in DOMAIN f.obj.d
       THEN f.obj.d.model
       ELSE f.obj

\* what load_model is to leave in the global with the files fs
Chosen(fs) ==
    IF AnyFile(fs) /\ fs[Priority[Top(fs)]].loads THEN Candidate(fs) ELSE None

\* a load_model() call of app.py has just returned: main's, or the one
\* debug makes when it finds no model
AppLoadReturned ==
    \/ req.op = "main"
    \/ req.op = "debug" /\ "loading_attempt" \in DOMAIN resp.body

\* C14: load_model lets no exception out and takes exactly one candidate,
\* the first existing file in the order model_clean.pkl, phishing_model.pkl,
\* model.txt, model.joblib: after it returns, model is loaded if and only if
\* that file loaded (a dict package of phishing_model.pkl unwrapped to its
\* 'model' entry), and is None otherwise, lower-priority loadable files
\* notwithstanding; simple_app.py takes model_clean.pkl alone.  While model
\* is None every predict answers "Model not loaded".
C14_LoadPriority ==
    /\ AppLoadReturned =>
          /\ model = Chosen(req.files)
          /\ Loaded(model) <=> (AnyFile(req.files) /\ req.files[Priority[Top(req.files)]].loads)
    /\ req.op = "main" => resp.call.ok
    /\ (req.op = "debug" /\ "loading_attempt" \in DOMAIN resp.body) =>
          /\ resp.code = 200
          /\ "loading_error" \notin DOMAIN resp.body
          /\ resp.body.model_loaded_after_attempt = Loaded(model)
    /\ req.op = "simple_main" =>
          /\ resp.call.ok
          /\ Loaded(simple_model) <=> (req.files.clean.exists /\ req.files.clean.loads)
          /\ Loaded(simple_model) => simple_model = req.files.clean.obj
    /\ (req.op = "predict" /\ ~Loaded(model)) => resp.body.error = "Model not loaded"
    /\ (req.op = "simple_predict" /\ ~Loaded(simple_model)) =>
          resp.body.error = "Model not loaded"

\* C14's case: load_model returned with model_clean.pkl corrupt and a
\* loadable phishing_model.pkl and model.txt next to it, and model is None
C14_Witness ==
    /\ AppLoadReturned
    /\ req.files.clean.exists /\ ~req.files.clean.loads
    /\ req.files.phishing.exists /\ req.files.phishing.loads
    /\ req.files.txt.exists /\ req.files.txt.loads
    /\ model = None

\* load_model took the 'model' entry of a phishing_model.pkl package
C14_Unwrapped ==
    /\ AppLoadReturned
    /\ ~req.files.clean.exists
    /\ req.files.phishing.exists /\ req.files.phishing.loads
    /\ req.files.phishing.obj.kind = "dict"
    /\ model = M3

=============================================================================
